---- MODULE Spec2Model ----
(***************************************************************************)
(* Model of spd-logger: the bounded MessageBuffer (buffer.hpp), the        *)
(* Producer and Consumer units built on it (producer.hpp, consumer.hpp),   *)
(* the FileWriter sink (file_writer.hpp) and the orchestrator (main.cpp).  *)
(*                                                                         *)
(* std::mutex: every block of code that runs between acquiring and         *)
(* releasing MessageBuffer::mutex is one action, so no two critical        *)
(* sections overlap.  condition_variable::wait releases the mutex and      *)
(* parks the thread in one step (pc = "push_wait" / "pop_wait"); a         *)
(* notification or a spurious wake-up moves it to "push_woken" /           *)
(* "pop_woken", from which it re-acquires the mutex and re-evaluates the   *)
(* predicate.                                                              *)
(***************************************************************************)
EXTENDS Integers, Sequences, FiniteSets, TLC

\* Threads that call the MessageBuffer API directly.
Clients == {"t1", "t2", "t3"}
\* producerOne, producerTwo of main.cpp.
Producers == {"p1", "p2"}
\* consumerOne, consumerTwo of main.cpp.
Consumers == {"c1", "c2"}
Units == Producers \cup Consumers
\* The thread running main().
Main == "main"
Threads == Clients \cup Units \cup {Main}
\* The order in which main() starts the units.
StartOrder == <<"p1", "p2", "c1", "c2">>
\* The order in which main() stops them.
StopOrder == <<"p1", "p2", "c1", "c2">>

\* Largest capacity handed to the MessageBuffer constructor.
MaxCapacity == 2
\* Number of distinct messages the direct callers may push while the queue is open.
MaxPush == 4
\* Number of distinct messages the producers may create while the queue is open.
MaxProduce == 2
\* How many worker threads may be created for one unit.
MaxLaunch == 2

\* Result slot of a thread that has not completed a push or pop.
NoRet == [op |-> "none", ok |-> FALSE]
\* The value push / pop returned.
Ret(o, b) == [op |-> o, ok |-> b]

\* Value of atShutdown before any shutdown() call.
NoShutdown == [snap |-> <<>>, pops |-> -1]

VARIABLES
    buffer,        \* MessageBuffer::buffer, the FIFO std::queue
    max_capacity,  \* MessageBuffer::max_capacity
    is_shutdown,   \* MessageBuffer::is_shutdown
    pc,            \* position of every thread
    message,       \* per thread: the string being pushed, or pop's out-parameter
    ret,           \* per thread: result of its last completed push/pop
    is_running,    \* per unit: Producer/Consumer::is_running
    joinable,      \* per unit: worker_thread.joinable()
    started,       \* main(): number of units started so far
    stopped,       \* main(): units whose stop() has returned
    cur,           \* main(): unit whose stop() is in progress
    file_open,     \* FileWriter: file.is_open()
    sink,          \* FileWriter: lines appended to the file
    caught,        \* per unit: the catch block of its routine has run
    target,        \* per caller: the unit whose start() or stop() it is executing
    launched,      \* history, per unit: number of worker threads created
    crash,         \* "none", or why std::terminate was called
    nextItem,      \* history: next fresh message
    pushedLog,     \* history: messages in the order push appended them
    poppedLog,     \* history: messages in the order pop removed them
    atShutdown     \* history: queue contents and pop count when shutdown() first set the flag

vars == <<buffer, max_capacity, is_shutdown, pc, message, ret, is_running, joinable,
          started, stopped, cur, file_open, sink, caught, target, launched, crash,
          nextItem, pushedLog, poppedLog, atShutdown>>

lifeVars == <<target, launched, crash>>
unitVars == <<is_running, joinable, started, stopped, cur, file_open, sink, caught,
              target, launched, crash>>

PushStates == {"push_call", "push_wait", "push_woken"}
PopStates == {"pop_call", "pop_wait", "pop_woken"}

\* Threads inside not_full.wait or not_empty.wait, parked or woken.
Blocked == {t \in Threads : pc[t] \in {"push_wait", "push_woken", "pop_wait", "pop_woken"}}

\* Threads parked in not_empty.wait / not_full.wait.
not_empty == {t \in Threads : pc[t] = "pop_wait"}
not_full == {t \in Threads : pc[t] = "push_wait"}

(***************************************************************************)
(* Construction.  MessageBuffer(capacity) throws on capacity == 0, so a    *)
(* constructed queue has capacity >= 1.  The constructor's initialiser     *)
(* list does not mention is_shutdown: the std::atomic<bool> is             *)
(* default-initialised, which leaves its value indeterminate before C++20  *)
(* and false from C++20 on.                                                *)
(***************************************************************************)
\* Variant of ctor_throws: the constructor accepts every capacity.
ctor_never_throws(capacity) == FALSE

\* MessageBuffer(size_t capacity): if (capacity == 0) throw std::invalid_argument.
ctor_throws(capacity) == capacity = 0

\* The state after MessageBuffer(capacity), with is_shutdown holding the
\* value flag; no unit has been started. When the constructor throws there
\* is no queue: nothing catches the exception, so std::terminate ends the
\* program before any thread can use one.
Construct(capacity, flag) ==
    /\ buffer = <<>>
    /\ max_capacity = capacity
    /\ is_shutdown = flag
    /\ pc = [t \in Threads |-> IF ctor_throws(capacity) THEN "terminated"
                               ELSE IF t \in Clients THEN "idle"
                               ELSE IF t \in Units THEN "off" ELSE "start"]
    /\ message = [t \in Threads |-> 0]
    /\ ret = [t \in Threads |-> NoRet]
    /\ is_running = [u \in Units |-> FALSE]
    /\ joinable = [u \in Units |-> FALSE]
    /\ started = 0
    /\ stopped = {}
    /\ cur = "none"
    /\ file_open = TRUE
    /\ sink = <<>>
    /\ caught = [u \in Units |-> FALSE]
    /\ target = [t \in Clients |-> "none"]
    /\ launched = [u \in Units |-> 0]
    /\ crash = IF ctor_throws(capacity) THEN "ctor_throw" ELSE "none"
    /\ nextItem = 1
    /\ pushedLog = <<>>
    /\ poppedLog = <<>>
    /\ atShutdown = NoShutdown

Init == \E capacity \in 1..MaxCapacity, flag \in BOOLEAN : Construct(capacity, flag)

(***************************************************************************)
(* Where a thread continues when a MessageBuffer call returns.             *)
(***************************************************************************)
\* Producer: logger.log returns, the worker sleeps and re-evaluates the loop condition.
AfterPush(t) == IF t \in Clients THEN "idle" ELSE "loop"

\* Variant of AfterPop: a consumer ends its routine when pop returns false.
AfterPopExitsOnClosed(t, ok) ==
    IF t \in Clients THEN "idle" ELSE IF ok THEN "append" ELSE "done"

\* Consumer: true -> log_writer.append(message); false -> sleep, loop condition.
AfterPop(t, ok) == IF t \in Clients THEN "idle" ELSE IF ok THEN "append" ELSE "loop"
\* main(): the stop() calls follow messageBuffer.shutdown().
AfterShutdown(t) == IF t \in Clients THEN "idle" ELSE "stop"

\* Variant of NotifyOne: the notification is lost.
NotifyOneLost(ws, woken, base) == {base}

\* condition_variable::notify_one on the threads in state ws: the possible next pc.
NotifyOne(ws, woken, base) ==
    LET W == {w \in Threads : base[w] = ws}
    IN  IF W = {} THEN {base} ELSE {[base EXCEPT ![w] = woken] : w \in W}

\* Variant of NotifyAll: nobody is notified.
NotifyNobody(ws, woken, base) == base

\* Variant of NotifyAll: notify_one in place of notify_all.
NotifyAllWakesOne(ws, woken, base) ==
    LET W == {w \in Threads : base[w] = ws}
    IN  IF W = {} THEN base ELSE [base EXCEPT ![CHOOSE w \in W : TRUE] = woken]

\* condition_variable::notify_all on the threads in state ws.
NotifyAll(ws, woken, base) ==
    [w \in Threads |-> IF base[w] = ws THEN woken ELSE base[w]]

(***************************************************************************)
(* MessageBuffer::push                                                     *)
(***************************************************************************)
\* Variant of push_pred: the wait never looks at the capacity.
push_pred_unbounded == TRUE

\* Variant of push_pred: the capacity test is off by one.
push_pred_off_by_one == Len(buffer) <= max_capacity \/ is_shutdown

\* The predicate of not_full.wait.
push_pred == Len(buffer) < max_capacity \/ is_shutdown

\* Variant of push_closed: the shutdown test after the wait is missing.
push_closed_unchecked == FALSE

\* The test after the wait that makes push return false.
push_closed == is_shutdown

\* Variant of push_back: the message is inserted at the head.
push_front(m) == <<m>> \o buffer

\* buffer.push(message)
push_back(m) == Append(buffer, m)

\* push with the mutex held, at not_full.wait, carrying message m.
PushLocked(t, m) ==
    IF ~push_pred
    THEN /\ pc' = [pc EXCEPT ![t] = "push_wait"]
         /\ message' = [message EXCEPT ![t] = m]
         /\ UNCHANGED <<buffer, ret, pushedLog>>
    ELSE IF push_closed
    THEN /\ pc' = [pc EXCEPT ![t] = AfterPush(t)]
         /\ ret' = [ret EXCEPT ![t] = Ret("push", FALSE)]
         /\ message' = [message EXCEPT ![t] = 0]
         /\ UNCHANGED <<buffer, pushedLog>>
    ELSE /\ buffer' = push_back(m)
         /\ pushedLog' = Append(pushedLog, m)
         /\ pc' \in NotifyOne("pop_wait", "pop_woken", [pc EXCEPT ![t] = AfterPush(t)])
         /\ ret' = [ret EXCEPT ![t] = Ret("push", TRUE)]
         /\ message' = [message EXCEPT ![t] = 0]

\* How many fresh messages thread t may still draw.
Quota(t) == IF t \in Clients THEN MaxPush ELSE MaxProduce

\* A thread enters push(message): it locks the mutex and reaches the wait.
\* A fresh message is drawn unless the queue is already closed.
PushEnter(t) ==
    /\ pc[t] = "push_call"
    /\ is_shutdown \/ nextItem <= Quota(t)
    /\ nextItem' = IF is_shutdown THEN nextItem ELSE nextItem + 1
    /\ PushLocked(t, IF is_shutdown THEN 0 ELSE nextItem)
    /\ UNCHANGED <<max_capacity, is_shutdown, poppedLog, atShutdown>>
    /\ UNCHANGED unitVars

\* A woken pusher re-acquires the mutex and re-evaluates the predicate.
PushResume(t) ==
    /\ pc[t] = "push_woken"
    /\ PushLocked(t, message[t])
    /\ UNCHANGED <<max_capacity, is_shutdown, nextItem, poppedLog, atShutdown>>
    /\ UNCHANGED unitVars

(***************************************************************************)
(* MessageBuffer::pop                                                      *)
(***************************************************************************)
\* The predicate of not_empty.wait.
pop_pred == buffer # <<>> \/ is_shutdown

\* Variant of pop_closed: a closed queue is reported before it is drained.
pop_closed_undrained == is_shutdown

\* The test that makes pop return false.
pop_closed == is_shutdown /\ buffer = <<>>

\* Variant of pop_front: the head is read but not removed.
pop_front_kept == [item |-> Head(buffer), rest |-> buffer]

\* message = buffer.front(); buffer.pop();
pop_front == [item |-> Head(buffer), rest |-> Tail(buffer)]

\* pop with the mutex held, at not_empty.wait.
PopLocked(t) ==
    IF ~pop_pred
    THEN /\ pc' = [pc EXCEPT ![t] = "pop_wait"]
         /\ UNCHANGED <<buffer, message, ret, poppedLog>>
    ELSE IF pop_closed
    THEN /\ pc' = [pc EXCEPT ![t] = AfterPop(t, FALSE)]
         /\ ret' = [ret EXCEPT ![t] = Ret("pop", FALSE)]
         /\ UNCHANGED <<buffer, message, poppedLog>>
    ELSE /\ message' = [message EXCEPT ![t] = pop_front.item]
         /\ buffer' = pop_front.rest
         /\ poppedLog' = Append(poppedLog, pop_front.item)
         /\ pc' \in NotifyOne("push_wait", "push_woken", [pc EXCEPT ![t] = AfterPop(t, TRUE)])
         /\ ret' = [ret EXCEPT ![t] = Ret("pop", TRUE)]

\* A thread enters pop(message).
PopEnter(t) ==
    /\ pc[t] = "pop_call"
    /\ PopLocked(t)
    /\ UNCHANGED <<max_capacity, is_shutdown, nextItem, pushedLog, atShutdown>>
    /\ UNCHANGED unitVars

\* A woken popper re-acquires the mutex and re-evaluates the predicate.
PopResume(t) ==
    /\ pc[t] = "pop_woken"
    /\ PopLocked(t)
    /\ UNCHANGED <<max_capacity, is_shutdown, nextItem, pushedLog, atShutdown>>
    /\ UNCHANGED unitVars

\* condition_variable::wait may return without a notification.
SpuriousWake(t) ==
    /\ t \in not_full \cup not_empty
    /\ pc' = [pc EXCEPT ![t] = IF t \in not_full THEN "push_woken" ELSE "pop_woken"]
    /\ UNCHANGED <<buffer, max_capacity, is_shutdown, message, ret, nextItem,
                   pushedLog, poppedLog, atShutdown>>
    /\ UNCHANGED unitVars

(***************************************************************************)
(* MessageBuffer::shutdown                                                 *)
(***************************************************************************)
\* Variant of ShutdownSet: the call also clears the stored items.
ShutdownSetClears(t) ==
    /\ pc[t] = "sd_call"
    /\ is_shutdown' = TRUE
    /\ buffer' = <<>>
    /\ atShutdown' = IF atShutdown = NoShutdown
                     THEN [snap |-> buffer, pops |-> Len(poppedLog)]
                     ELSE atShutdown
    /\ pc' = [pc EXCEPT ![t] = "sd_notify_ne"]
    /\ UNCHANGED <<max_capacity, message, ret, nextItem, pushedLog, poppedLog>>
    /\ UNCHANGED unitVars

\* Variant of shutdown_value: the call flips the flag.
shutdown_value_toggled == ~is_shutdown

\* The value shutdown() stores in is_shutdown.
shutdown_value == TRUE

\* The lock_guard block: is_shutdown = true.
ShutdownSet(t) ==
    /\ pc[t] = "sd_call"
    /\ is_shutdown' = shutdown_value
    /\ atShutdown' = IF atShutdown = NoShutdown
                     THEN [snap |-> buffer, pops |-> Len(poppedLog)]
                     ELSE atShutdown
    /\ pc' = [pc EXCEPT ![t] = "sd_notify_ne"]
    /\ UNCHANGED <<buffer, max_capacity, message, ret, nextItem, pushedLog, poppedLog>>
    /\ UNCHANGED unitVars

\* not_empty.notify_all()
ShutdownNotifyNotEmpty(t) ==
    /\ pc[t] = "sd_notify_ne"
    /\ pc' = NotifyAll("pop_wait", "pop_woken", [pc EXCEPT ![t] = "sd_notify_nf"])
    /\ UNCHANGED <<buffer, max_capacity, is_shutdown, message, ret, nextItem,
                   pushedLog, poppedLog, atShutdown>>
    /\ UNCHANGED unitVars

\* not_full.notify_all(), after which shutdown() returns.
ShutdownNotifyNotFull(t) ==
    /\ pc[t] = "sd_notify_nf"
    /\ pc' = NotifyAll("push_wait", "push_woken", [pc EXCEPT ![t] = AfterShutdown(t)])
    /\ UNCHANGED <<buffer, max_capacity, is_shutdown, message, ret, nextItem,
                   pushedLog, poppedLog, atShutdown>>
    /\ UNCHANGED unitVars

(***************************************************************************)
(* Threads using the MessageBuffer directly: each idle thread may call     *)
(* push, pop or shutdown.                                                  *)
(***************************************************************************)
ClientCall(t) ==
    /\ pc[t] = "idle"
    /\ \E op \in {"push_call", "pop_call", "sd_call"} : pc' = [pc EXCEPT ![t] = op]
    /\ message' = [message EXCEPT ![t] = 0]
    /\ ret' = [ret EXCEPT ![t] = NoRet]
    /\ UNCHANGED <<buffer, max_capacity, is_shutdown, nextItem,
                   pushedLog, poppedLog, atShutdown>>
    /\ UNCHANGED unitVars

\* The steps of a thread inside a MessageBuffer call.
QueueStep(t) ==
    \/ PushEnter(t)
    \/ PushResume(t)
    \/ PopEnter(t)
    \/ PopResume(t)
    \/ ShutdownSet(t)
    \/ ShutdownNotifyNotEmpty(t)
    \/ ShutdownNotifyNotFull(t)

QNext ==
    \/ \E t \in Clients : ClientCall(t)
    \/ \E t \in Clients : QueueStep(t)
    \/ \E t \in Clients : SpuriousWake(t)

QSpec == Init /\ [][QNext]_vars

FairQSpec == QSpec /\ \A t \in Clients : WF_vars(QueueStep(t))

\* The capacities handed to the constructor: the size_t values from 0 on.
CtorInit == \E capacity \in 0..MaxCapacity, flag \in BOOLEAN : Construct(capacity, flag)

\* Construction with any capacity, followed by free use of the queue.
CtorSpec == CtorInit /\ [][QNext]_vars

(***************************************************************************)
(* The usage scenario of a queue of capacity 3: the calls are issued one   *)
(* after the other by whichever threads are free, a call being issued once *)
(* the previous one has returned or has parked.                            *)
(***************************************************************************)
\* The capacity main() passes to the MessageBuffer.
ScenarioCapacity == 3

\* The messages a, b, c, d of the scenario are 1..ScenarioLast.
ScenarioLast == ScenarioCapacity + 1

\* The queue is freshly constructed with capacity 3 and is open.
ScenarioInit == Construct(ScenarioCapacity, FALSE)

\* Every thread is outside the mutex: idle, parked or notified.
ScenarioQuiet ==
    \A t \in Clients : pc[t] \in {"idle", "push_wait", "push_woken", "pop_wait", "pop_woken"}

\* A push, respectively a pop, is pending.
ScenarioPushPending == \E t \in Clients : pc[t] \in PushStates
ScenarioPopPending == \E t \in Clients : pc[t] \in PopStates

\* The call the scenario issues next, if any.
ScenarioNextOp ==
    IF nextItem <= ScenarioLast /\ ~ScenarioPushPending THEN "push_call"
    ELSE IF nextItem <= ScenarioLast THEN "none"
    ELSE IF Len(poppedLog) < ScenarioLast /\ ~ScenarioPopPending THEN "pop_call"
    ELSE IF Len(poppedLog) < ScenarioLast THEN "none"
    ELSE IF atShutdown = NoShutdown THEN "sd_call"
    ELSE IF \A t \in Clients : ret[t] # Ret("pop", FALSE) THEN "pop_call"
    ELSE "none"

ScenarioCall(t) ==
    /\ pc[t] = "idle"
    /\ ScenarioQuiet
    /\ ScenarioNextOp # "none"
    /\ pc' = [pc EXCEPT ![t] = ScenarioNextOp]
    /\ message' = [message EXCEPT ![t] = 0]
    /\ ret' = [ret EXCEPT ![t] = NoRet]
    /\ UNCHANGED <<buffer, max_capacity, is_shutdown, nextItem,
                   pushedLog, poppedLog, atShutdown>>
    /\ UNCHANGED unitVars

ScenarioNext ==
    \/ \E t \in Clients : ScenarioCall(t)
    \/ \E t \in Clients : QueueStep(t)
    \/ \E t \in Clients : SpuriousWake(t)

ScenarioSpec == ScenarioInit /\ [][ScenarioNext]_vars

(***************************************************************************)
(* Producer / Consumer: start() and stop(), called by main().              *)
(***************************************************************************)
\* Where main() continues when a start() call returns: the next start(), or
\* the sleep followed by messageBuffer.shutdown().
AfterStart == IF started + 1 = Len(StartOrder) THEN "sd_call" ELSE "start"

\* start(): no-op when is_running; else is_running.store(true) and the worker thread is created.
UnitStart(u) ==
    IF is_running[u]
    THEN /\ pc' = [pc EXCEPT ![Main] = AfterStart]
         /\ UNCHANGED <<is_running, joinable, launched>>
    ELSE /\ is_running' = [is_running EXCEPT ![u] = TRUE]
         /\ joinable' = [joinable EXCEPT ![u] = TRUE]
         /\ launched' = [launched EXCEPT ![u] = @ + 1]
         /\ pc' = [pc EXCEPT ![u] = "loop", ![Main] = AfterStart]

\* main(): the next start() call; after the last one main sleeps, then calls shutdown().
MainStart ==
    /\ pc[Main] = "start"
    /\ started < Len(StartOrder)
    /\ UnitStart(StartOrder[started + 1])
    /\ started' = started + 1
    /\ UNCHANGED <<buffer, max_capacity, is_shutdown, message, ret, nextItem,
                   pushedLog, poppedLog, atShutdown>>
    /\ UNCHANGED <<stopped, cur, file_open, sink, caught, target, crash>>

\* Where main() continues once the units in S have been stopped.
AfterStop(S) == IF S = Units THEN "done" ELSE "stop"

\* stop() up to the join: returns at once when not running, else is_running.store(false).
StopCall(u) ==
    /\ pc[Main] = "stop"
    /\ u = StopOrder[Cardinality(stopped) + 1]
    /\ IF ~is_running[u]
       THEN /\ stopped' = stopped \cup {u}
            /\ pc' = [pc EXCEPT ![Main] = AfterStop(stopped \cup {u})]
            /\ UNCHANGED <<is_running, cur>>
       ELSE /\ is_running' = [is_running EXCEPT ![u] = FALSE]
            /\ cur' = u
            /\ pc' = [pc EXCEPT ![Main] = "join"]
            /\ UNCHANGED stopped
    /\ UNCHANGED <<buffer, max_capacity, is_shutdown, message, ret, nextItem,
                   pushedLog, poppedLog, atShutdown>>
    /\ UNCHANGED <<joinable, started, file_open, sink, caught>>
    /\ UNCHANGED lifeVars

\* Variant of JoinReturns: stop() does not wait for the worker.
JoinSkipped(u) == TRUE

\* if (worker_thread.joinable()) worker_thread.join(): may proceed once the
\* routine of a joinable worker has returned.
JoinReturns(u) == joinable[u] => pc[u] = "done"

\* The rest of stop(): the join, after which stop() returns.
StopJoin ==
    /\ pc[Main] = "join"
    /\ JoinReturns(cur)
    /\ joinable' = [joinable EXCEPT ![cur] = FALSE]
    /\ stopped' = stopped \cup {cur}
    /\ cur' = "none"
    /\ pc' = [pc EXCEPT ![Main] = AfterStop(stopped \cup {cur})]
    /\ UNCHANGED <<buffer, max_capacity, is_shutdown, message, ret, nextItem,
                   pushedLog, poppedLog, atShutdown>>
    /\ UNCHANGED <<is_running, started, file_open, sink, caught>>
    /\ UNCHANGED lifeVars

(***************************************************************************)
(* Producer::logging_routine                                               *)
(***************************************************************************)
\* Variant of ProducerLoopTarget: the loop also ends after a push returned false.
ProducerLoopBreaksOnClosed(p) ==
    IF is_running[p] /\ ret[p] # Ret("push", FALSE) THEN "push_call" ELSE "done"

\* Where the producer goes after evaluating while (is_running.load()).
ProducerLoopTarget(p) == IF is_running[p] THEN "push_call" ELSE "done"

\* The loop condition; a true result leads to logger.log, which calls push.
ProducerLoop(p) ==
    /\ pc[p] = "loop"
    /\ pc' = [pc EXCEPT ![p] = ProducerLoopTarget(p)]
    /\ UNCHANGED <<buffer, max_capacity, is_shutdown, message, ret, nextItem,
                   pushedLog, poppedLog, atShutdown>>
    /\ UNCHANGED unitVars

(***************************************************************************)
(* Consumer::writing_routine and FileWriter                                *)
(***************************************************************************)
\* The loop condition; a true result leads to buffer_ref.pop(message).
ConsumerLoop(c) ==
    /\ pc[c] = "loop"
    /\ pc' = [pc EXCEPT ![c] = IF is_running[c] THEN "pop_call" ELSE "done"]
    /\ ret' = [ret EXCEPT ![c] = NoRet]
    /\ UNCHANGED <<buffer, max_capacity, is_shutdown, message, nextItem,
                   pushedLog, poppedLog, atShutdown>>
    /\ UNCHANGED unitVars

\* Where the consumer goes when FileWriter::append throws: the try block
\* encloses the while loop, so the catch handler runs and the routine returns.
ConsumerOnThrow == "done"

\* Variant of pc_on_throw: the exception leaves the routine uncaught and
\* std::terminate ends every thread.
pc_on_uncaught_throw(c) == [t \in Threads |-> "terminated"]

\* The threads after append has thrown in consumer c: the handler of c runs.
pc_on_throw(c) == [pc EXCEPT ![c] = ConsumerOnThrow]

\* log_writer.append(message): writes the line, or throws when the file is closed.
ConsumerAppend(c) ==
    /\ pc[c] = "append"
    /\ IF file_open
       THEN /\ sink' = Append(sink, message[c])
            /\ pc' = [pc EXCEPT ![c] = "loop"]
            /\ UNCHANGED caught
       ELSE /\ caught' = [caught EXCEPT ![c] = TRUE]
            /\ pc' = pc_on_throw(c)
            /\ UNCHANGED sink
    /\ message' = [message EXCEPT ![c] = 0]
    /\ ret' = [ret EXCEPT ![c] = NoRet]
    /\ UNCHANGED <<buffer, max_capacity, is_shutdown, nextItem,
                   pushedLog, poppedLog, atShutdown>>
    /\ UNCHANGED <<is_running, joinable, started, stopped, cur, file_open>>
    /\ UNCHANGED lifeVars

\* FileWriter::close(), callable from any thread at any time.
FileClose ==
    /\ file_open
    /\ crash = "none"
    /\ file_open' = FALSE
    /\ UNCHANGED <<buffer, max_capacity, is_shutdown, pc, message, ret, nextItem,
                   pushedLog, poppedLog, atShutdown>>
    /\ UNCHANGED <<is_running, joinable, started, stopped, cur, sink, caught>>
    /\ UNCHANGED lifeVars

\* The steps of a unit's worker thread.
WorkerStep(u) ==
    \/ u \in Producers /\ ProducerLoop(u)
    \/ u \in Consumers /\ ConsumerLoop(u)
    \/ u \in Consumers /\ ConsumerAppend(u)
    \/ QueueStep(u)

\* The steps of main().
MainStep ==
    \/ MainStart
    \/ QueueStep(Main)
    \/ \E u \in Units \ stopped : StopCall(u)
    \/ StopJoin

SysNext ==
    \/ MainStep
    \/ \E u \in Units : WorkerStep(u)
    \/ \E u \in Units : SpuriousWake(u)
    \/ FileClose

Spec == Init /\ [][SysNext]_vars

\* Every thread that can take a step eventually does; wake-ups without a
\* notification and FileWriter::close() are never owed.
FairSpec == Spec /\ WF_vars(MainStep) /\ \A u \in Units : WF_vars(WorkerStep(u))

(***************************************************************************)
(* start() and stop() called directly, step by step: the load of           *)
(* is_running, the store, and the creation or the join of worker_thread.   *)
(* A caller may also shut the queue down.                                  *)
(***************************************************************************)
\* The units operated on: one producer and one consumer.
LifeUnits == {"p1", "c1"}

\* The units two threads operate on concurrently.
RaceUnits == {"c1"}

\* The units thread t operates on.
UnitsOf(t) == IF t = "t1" THEN LifeUnits ELSE RaceUnits

\* A caller enters start() or stop() on a unit, or shutdown() on the queue.
LifeCall(t) ==
    /\ pc[t] = "idle"
    /\ \/ \E u \in UnitsOf(t) :
             /\ launched[u] < MaxLaunch
             /\ pc' = [pc EXCEPT ![t] = "start_load"]
             /\ target' = [target EXCEPT ![t] = u]
       \/ \E u \in UnitsOf(t) :
             /\ pc' = [pc EXCEPT ![t] = "stop_load"]
             /\ target' = [target EXCEPT ![t] = u]
       \/ /\ pc' = [pc EXCEPT ![t] = "sd_call"]
          /\ UNCHANGED target
    /\ UNCHANGED <<buffer, max_capacity, is_shutdown, message, ret, nextItem,
                   pushedLog, poppedLog, atShutdown>>
    /\ UNCHANGED <<is_running, joinable, started, stopped, cur, file_open, sink, caught,
                   launched, crash>>

\* Variant of start_skips: start() does not look at the flag.
start_never_skips(u) == FALSE

\* start(): if (is_running.load()) return.
start_skips(u) == is_running[u]

StartLoad(t) ==
    /\ pc[t] = "start_load"
    /\ IF start_skips(target[t])
       THEN /\ pc' = [pc EXCEPT ![t] = "idle"]
            /\ target' = [target EXCEPT ![t] = "none"]
       ELSE /\ pc' = [pc EXCEPT ![t] = "start_store"]
            /\ UNCHANGED target
    /\ UNCHANGED <<buffer, max_capacity, is_shutdown, message, ret, nextItem,
                   pushedLog, poppedLog, atShutdown>>
    /\ UNCHANGED <<is_running, joinable, started, stopped, cur, file_open, sink, caught,
                   launched, crash>>

\* start(): is_running.store(true).
StartStore(t) ==
    /\ pc[t] = "start_store"
    /\ is_running' = [is_running EXCEPT ![target[t]] = TRUE]
    /\ pc' = [pc EXCEPT ![t] = "start_launch"]
    /\ UNCHANGED <<buffer, max_capacity, is_shutdown, message, ret, nextItem,
                   pushedLog, poppedLog, atShutdown>>
    /\ UNCHANGED <<joinable, started, stopped, cur, file_open, sink, caught>>
    /\ UNCHANGED lifeVars

\* start(): worker_thread = std::thread(routine, this). The new thread is
\* created first; move-assigning it to a worker_thread that is still
\* joinable calls std::terminate.
StartLaunch(t) ==
    LET u == target[t]
    IN  /\ pc[t] = "start_launch"
        /\ launched' = [launched EXCEPT ![u] = @ + 1]
        /\ IF joinable[u]
           THEN /\ crash' = IF pc[u] \in {"off", "done"}
                            THEN "thread_unjoined" ELSE "thread_overlap"
                /\ pc' = [w \in Threads |-> "terminated"]
                /\ UNCHANGED <<joinable, target, message, ret>>
           ELSE /\ joinable' = [joinable EXCEPT ![u] = TRUE]
                /\ pc' = [pc EXCEPT ![u] = "loop", ![t] = "idle"]
                /\ target' = [target EXCEPT ![t] = "none"]
                /\ message' = [message EXCEPT ![u] = 0]
                /\ ret' = [ret EXCEPT ![u] = NoRet]
                /\ UNCHANGED crash
        /\ UNCHANGED <<buffer, max_capacity, is_shutdown, nextItem,
                       pushedLog, poppedLog, atShutdown>>
        /\ UNCHANGED <<is_running, started, stopped, cur, file_open, sink, caught>>

\* stop(): if (!is_running.load()) return.
StopLoad(t) ==
    /\ pc[t] = "stop_load"
    /\ IF ~is_running[target[t]]
       THEN /\ pc' = [pc EXCEPT ![t] = "idle"]
            /\ target' = [target EXCEPT ![t] = "none"]
       ELSE /\ pc' = [pc EXCEPT ![t] = "stop_store"]
            /\ UNCHANGED target
    /\ UNCHANGED <<buffer, max_capacity, is_shutdown, message, ret, nextItem,
                   pushedLog, poppedLog, atShutdown>>
    /\ UNCHANGED <<is_running, joinable, started, stopped, cur, file_open, sink, caught,
                   launched, crash>>

\* stop(): is_running.store(false).
StopStore(t) ==
    /\ pc[t] = "stop_store"
    /\ is_running' = [is_running EXCEPT ![target[t]] = FALSE]
    /\ pc' = [pc EXCEPT ![t] = "stop_join"]
    /\ UNCHANGED <<buffer, max_capacity, is_shutdown, message, ret, nextItem,
                   pushedLog, poppedLog, atShutdown>>
    /\ UNCHANGED <<joinable, started, stopped, cur, file_open, sink, caught>>
    /\ UNCHANGED lifeVars

\* stop(): if (worker_thread.joinable()) worker_thread.join(), then return.
StopJoinWorker(t) ==
    /\ pc[t] = "stop_join"
    /\ JoinReturns(target[t])
    /\ joinable' = [joinable EXCEPT ![target[t]] = FALSE]
    /\ pc' = [pc EXCEPT ![t] = "idle"]
    /\ target' = [target EXCEPT ![t] = "none"]
    /\ UNCHANGED <<buffer, max_capacity, is_shutdown, message, ret, nextItem,
                   pushedLog, poppedLog, atShutdown>>
    /\ UNCHANGED <<is_running, started, stopped, cur, file_open, sink, caught,
                   launched, crash>>

\* The steps of a thread that calls start(), stop() and shutdown().
CallerStep(t) ==
    \/ LifeCall(t)
    \/ StartLoad(t)
    \/ StartStore(t)
    \/ StartLaunch(t)
    \/ StopLoad(t)
    \/ StopStore(t)
    \/ StopJoinWorker(t)
    \/ ShutdownSet(t)
    \/ ShutdownNotifyNotEmpty(t)
    \/ ShutdownNotifyNotFull(t)

\* One thread issues the calls, one after the other.
UnitNext ==
    \/ CallerStep("t1")
    \/ \E u \in LifeUnits : WorkerStep(u)
    \/ \E u \in LifeUnits : SpuriousWake(u)
    \/ FileClose

UnitSpec == Init /\ [][UnitNext]_vars

\* The steps of a thread inside a start(), stop() or shutdown() call.
CallStep(t) ==
    \/ StartLoad(t)
    \/ StartStore(t)
    \/ StartLaunch(t)
    \/ StopLoad(t)
    \/ StopStore(t)
    \/ StopJoinWorker(t)
    \/ ShutdownSet(t)
    \/ ShutdownNotifyNotEmpty(t)
    \/ ShutdownNotifyNotFull(t)

\* Every thread that can take a step inside a call or a routine eventually
\* does; new calls, wake-ups without a notification and FileWriter::close()
\* are never owed.
FairUnitSpec ==
    UnitSpec /\ WF_vars(CallStep("t1")) /\ \A u \in LifeUnits : WF_vars(WorkerStep(u))

\* The threads that issue calls concurrently.
RaceCallers == {"t1", "t2"}

\* Two threads issue calls concurrently.
RaceNext ==
    \/ \E t \in RaceCallers : CallerStep(t)
    \/ \E u \in LifeUnits : WorkerStep(u)
    \/ \E u \in LifeUnits : SpuriousWake(u)

RaceSpec == Init /\ [][RaceNext]_vars

(***************************************************************************)
(* Properties.                                                             *)
(***************************************************************************)
\* Number of positions of sequence s that hold x.
Count(s, x) == Cardinality({i \in DOMAIN s : s[i] = x})

\* Thread t's pop call returns in this step.
PopReturns(t) == pc[t] \in {"pop_call", "pop_woken"} /\ pc'[t] \notin PopStates

\* Thread t's push call returns in this step.
PushReturns(t) == pc[t] \in {"push_call", "push_woken"} /\ pc'[t] \notin PushStates

\* C1: with any number of threads calling push, pop and shutdown on one
\* MessageBuffer of capacity C > 0, the number of stored items is always
\* between 0 and C.
C1_SizeWithinCapacity ==
    /\ max_capacity > 0
    /\ 0 <= Len(buffer)
    /\ Len(buffer) <= max_capacity

\* A full queue of the largest capacity with a pusher parked behind it.
C1_Witness ==
    /\ max_capacity = MaxCapacity
    /\ Len(buffer) = max_capacity
    /\ not_full # {}

\* C2: every message whose push returned true is either stored in the queue
\* exactly once or was returned by exactly one successful pop, never both and
\* never twice; and every message a successful pop returned was appended by a
\* push that returned true.
C2_NoLossNoDuplication ==
    /\ \A k \in DOMAIN pushedLog :
         Count(buffer, pushedLog[k]) + Count(poppedLog, pushedLog[k]) = 1
    /\ \A k \in DOMAIN poppedLog : Count(pushedLog, poppedLog[k]) = 1
    /\ \A k \in DOMAIN buffer : Count(pushedLog, buffer[k]) = 1

\* Some pushed message has been popped while another is still stored.
C2_Witness ==
    /\ Len(poppedLog) >= 1
    /\ Len(buffer) >= 1
    /\ Len(pushedLog) = Len(poppedLog) + Len(buffer)

\* C3: the messages returned by successful pops, in the order of their
\* removal, always form a prefix of the messages in the order successful
\* pushes appended them.
C3_PopOrderIsPushOrder ==
    /\ Len(poppedLog) <= Len(pushedLog)
    /\ \A i \in DOMAIN poppedLog : poppedLog[i] = pushedLog[i]

\* Two popped messages had been appended in the opposite of the order in
\* which their push calls began (a parked pusher overtaken by a later one).
C3_Witness ==
    \E i, j \in DOMAIN poppedLog : i < j /\ poppedLog[i] > poppedLog[j]

\* C4: if shutdown() takes effect while the queue holds N messages, exactly
\* the next N pops to complete return true and deliver those N messages in
\* FIFO order, and every pop completing after that returns false; and a pop
\* returns false only when the queue is closed and empty.
C4_ShutdownDrainsThenCloses ==
    [][\A t \in Threads : PopReturns(t) =>
         /\ ret'[t] = Ret("pop", FALSE) => (is_shutdown /\ buffer = <<>>)
         /\ atShutdown # NoShutdown =>
              LET k == Len(poppedLog) - atShutdown.pops
              IN  IF k < Len(atShutdown.snap)
                  THEN /\ ret'[t] = Ret("pop", TRUE)
                       /\ message'[t] = atShutdown.snap[k + 1]
                  ELSE ret'[t] = Ret("pop", FALSE)]_vars

\* shutdown() found two messages, both were popped since, and a later pop
\* has returned false.
C4_Witness ==
    /\ atShutdown # NoShutdown
    /\ Len(atShutdown.snap) = 2
    /\ Len(poppedLog) - atShutdown.pops = 2
    /\ \E t \in Threads : ret[t] = Ret("pop", FALSE)

\* C5: once the closed flag is set it stays set, and from then on no push
\* appends: every push that returns afterwards (begun later, or blocked when
\* the flag was set) returns false and leaves the queue contents unchanged,
\* free space or not.
C5_ClosedRejectsPush ==
    [][is_shutdown =>
         /\ is_shutdown'
         /\ pushedLog' = pushedLog
         /\ \A t \in Threads : PushReturns(t) =>
              (ret'[t] = Ret("push", FALSE) /\ buffer' = buffer)]_vars

\* shutdown() found the queue full, space has been freed since, and a push
\* has returned false.
C5_Witness ==
    /\ atShutdown # NoShutdown
    /\ Len(atShutdown.snap) = max_capacity
    /\ Len(buffer) < max_capacity
    /\ \E t \in Threads : ret[t] = Ret("push", FALSE)

\* C6: in the orchestrator sequence (start every unit, later shutdown(),
\* then stop() on every unit) with no sink failure, once the last stop() has
\* returned the queue is empty and every message whose push returned true
\* has been appended to the sink exactly once.
C6_AllDeliveredWhenStopped ==
    (pc[Main] = "done" /\ \A c \in Consumers : ~caught[c]) =>
        /\ buffer = <<>>
        /\ \A k \in DOMAIN pushedLog : Count(sink, pushedLog[k]) = 1

\* C7 (as stated): after a producer's push has returned false because
\* shutdown() closed the queue, that worker makes no further push attempt.
C7_NoPushAfterClosed ==
    [][\A p \in Producers :
         (atShutdown # NoShutdown /\ ret[p] = Ret("push", FALSE)) =>
            ~(pc[p] = "push_call" /\ pc'[p] # "push_call")]_vars

\* C7 (amended): after a producer's push has returned false, every further
\* push attempt of that worker returns false as well, and its loop ends only
\* once the unit's running flag has been cleared.
C7_LoopEndsOnlyWhenStopped ==
    [][\A p \in Producers :
         ret[p] = Ret("push", FALSE) =>
            /\ ret'[p] = Ret("push", FALSE)
            /\ pc'[p] = "done" => ~is_running'[p]]_vars

\* A producer whose push returned false has left its loop after stop().
C7_Witness ==
    \E p \in Producers :
        /\ ret[p] = Ret("push", FALSE)
        /\ pc[p] = "done"
        /\ ~is_running[p]
        /\ p \in stopped

\* C8: a consumer whose sink append raised an error stays alive and goes on
\* to its next iteration.
C8_ConsumerSurvivesAppendError ==
    \A c \in Consumers : caught[c] => pc[c] # "done"

\* C9: under fair scheduling, in the orchestrator sequence every stop() call
\* returns, and a unit whose stop() has returned has no worker left alive or
\* blocked in push or pop.
C9_EveryStopReturns ==
    /\ <>[](pc[Main] = "done" /\ stopped = Units)
    /\ [](\A u \in stopped : pc[u] = "done")

\* After a shutdown() that found the queue full, stop() is waiting in join
\* for a producer that is still inside the wait of its push, while a consumer
\* is still inside the wait of its pop.
C9_Witness ==
    /\ pc[Main] = "join"
    /\ cur \in Producers \cap Blocked
    /\ Consumers \cap Blocked # {}
    /\ Len(atShutdown.snap) = max_capacity

\* C10: under fair scheduling, every thread that is blocked in push or pop
\* when shutdown() sets the flag returns: a blocked push returns false, a
\* blocked pop returns true exactly when it removes a message.
C10_ShutdownReleasesWaiters ==
    /\ \A t \in Clients : (is_shutdown /\ t \in Blocked) ~> (pc[t] = "idle")
    /\ [][\A t \in Clients :
            /\ (is_shutdown /\ PushReturns(t)) => ret'[t] = Ret("push", FALSE)
            /\ PopReturns(t) => /\ ret'[t].op = "pop"
                                /\ ret'[t].ok <=> poppedLog' # poppedLog]_vars

\* shutdown() has just set the flag on an open queue while two threads are
\* parked in a wait.
C10_Witness ==
    /\ atShutdown # NoShutdown
    /\ \E t \in Clients : pc[t] = "sd_notify_ne"
    /\ Cardinality(not_full \cup not_empty) >= 2

\* C11: while the queue is open, a push completes only by appending its
\* message to a queue holding fewer items than the capacity, keeping every
\* stored item in place, and a pop completes only by taking the head of a
\* non-empty queue; a push that returns true has appended in this way.
C11_NoOverwriteNoFabrication ==
    [][\A t \in Clients :
        /\ (PushReturns(t) /\ (~is_shutdown \/ ret'[t] = Ret("push", TRUE)))
              => /\ Len(buffer) < max_capacity
                 /\ ret'[t] = Ret("push", TRUE)
                 /\ Len(buffer') = Len(buffer) + 1
                 /\ SubSeq(buffer', 1, Len(buffer)) = buffer
                 /\ buffer'[Len(buffer')] = pushedLog'[Len(pushedLog')]
                 /\ Len(pushedLog') = Len(pushedLog) + 1
        /\ (PopReturns(t) /\ ~is_shutdown)
              => /\ buffer # <<>>
                 /\ ret'[t] = Ret("pop", TRUE)
                 /\ message'[t] = Head(buffer)
                 /\ buffer' = Tail(buffer)
        /\ (PopReturns(t) /\ ret'[t] = Ret("pop", TRUE))
              => /\ buffer # <<>>
                 /\ message'[t] = Head(buffer)
                 /\ Count(pushedLog, message'[t]) = 1
    ]_vars

\* A pusher is parked on a full open queue while another thread's pop and a
\* third thread's push have completed with true.
C11_Witness ==
    /\ ~is_shutdown
    /\ Len(buffer) = max_capacity
    /\ not_full # {}
    /\ \E t \in Clients : ret[t] = Ret("pop", TRUE)
    /\ \E t \in Clients : ret[t] = Ret("push", TRUE)

\* C12: on a fresh open queue of capacity 3, with a, b, c, d the messages
\* 1, 2, 3, 4: the pushes of a, b, c return true; the push of d parks while
\* nothing has been popped; the first pop returns a and notifies the parked
\* push, which completes with true; the next three pops return b, c, d in
\* that order and leave the queue empty; the pop issued after shutdown()
\* neither parks nor returns a message: it returns false.
C12_CapacityThreeScenario ==
    /\ max_capacity = ScenarioCapacity
    /\ \A k \in DOMAIN pushedLog : pushedLog[k] = k
    /\ \A k \in DOMAIN poppedLog : poppedLog[k] = k
    /\ Len(pushedLog) <= ScenarioLast
    /\ \A t \in Clients : ret[t].op = "push" => ret[t].ok
    /\ (nextItem > ScenarioLast /\ poppedLog = <<>>)
          => /\ Len(buffer) = ScenarioCapacity
             /\ pushedLog = buffer
             /\ \E t \in Clients : /\ pc[t] \in {"push_wait", "push_woken"}
                                   /\ message[t] = ScenarioLast
    /\ poppedLog # <<>> => not_full = {}
    /\ \A t \in Clients : ret[t] = Ret("pop", FALSE) => atShutdown # NoShutdown
    /\ Len(poppedLog) = ScenarioLast => (buffer = <<>> /\ Len(pushedLog) = ScenarioLast)
    /\ atShutdown # NoShutdown
          => /\ Len(poppedLog) = ScenarioLast
             /\ atShutdown.snap = <<>>
             /\ \A t \in Clients : pc[t] \notin {"pop_wait", "pop_woken"}

\* The scenario has run to its end: a, b, c, d were popped in order, the
\* queue was shut down and the last pop has returned false.
C12_Witness ==
    /\ poppedLog = <<1, 2, 3, 4>>
    /\ is_shutdown
    /\ \A t \in Clients : pc[t] = "idle"
    /\ \E t \in Clients : ret[t] = Ret("pop", FALSE)
    /\ \E t \in Clients : ret[t] = Ret("push", TRUE)

\* A thread inside shutdown().
ShutdownStates == {"sd_call", "sd_notify_ne", "sd_notify_nf"}

\* C13: once a shutdown() call has closed the queue, every step of a further
\* shutdown() call, whatever the other threads are doing, leaves the closed
\* flag set and the stored items, the logs and every thread's result as
\* they are; other threads are at most woken from their wait, and the flag
\* is never cleared again.
C13_ShutdownIdempotent ==
    /\ [](atShutdown # NoShutdown => is_shutdown)
    /\ [][\A t \in Clients :
            (atShutdown # NoShutdown /\ pc[t] \in ShutdownStates /\ pc'[t] # pc[t])
               => /\ is_shutdown' = is_shutdown
                  /\ buffer' = buffer
                  /\ atShutdown' = atShutdown
                  /\ ret' = ret
                  /\ message' = message
                  /\ pushedLog' = pushedLog
                  /\ poppedLog' = poppedLog
                  /\ \A w \in Clients \ {t} :
                        \/ pc'[w] = pc[w]
                        \/ pc[w] = "push_wait" /\ pc'[w] = "push_woken"
                        \/ pc[w] = "pop_wait" /\ pc'[w] = "pop_woken"
       ]_vars

\* Two threads have both executed the lock_guard block of shutdown() on a
\* queue that still stores items, while the third is inside a pop.
C13_Witness ==
    /\ buffer # <<>>
    /\ \E t, w \in Clients :
          /\ t # w
          /\ pc[t] \in {"sd_notify_ne", "sd_notify_nf"}
          /\ pc[w] \in {"sd_notify_ne", "sd_notify_nf"}
          /\ \E v \in Clients \ {t, w} : pc[v] \in PopStates

\* C14: every step of a shutdown() call leaves the stored items, their order
\* and the capacity as they are, the step that takes the lock changing the
\* closed flag only; no step of any operation changes the capacity.
C14_ShutdownFrame ==
    [][/\ max_capacity' = max_capacity
       /\ \A t \in Clients :
            (pc[t] \in ShutdownStates /\ pc'[t] # pc[t])
               => /\ buffer' = buffer
                  /\ pushedLog' = pushedLog
                  /\ poppedLog' = poppedLog
                  /\ nextItem' = nextItem
                  /\ is_shutdown'
    ]_vars

\* A first shutdown() has just closed a queue that is full, with two items
\* in their push order, after an earlier pop.
C14_Witness ==
    /\ is_shutdown
    /\ max_capacity = 2
    /\ Len(buffer) = max_capacity
    /\ buffer[1] < buffer[2]
    /\ atShutdown.snap = buffer
    /\ poppedLog # <<>>
    /\ \E t \in Clients : pc[t] = "sd_notify_ne"

\* The worker thread of unit u is not executing its routine.
WorkerEnded(u) == pc[u] \in {"off", "done"}

\* C15: with one thread issuing the calls, a start() that finds the running
\* flag true returns at once and changes nothing of the unit, of the other
\* units or of the queue; a start() that finds it false creates exactly one
\* worker, on a unit that has none; and the flag, once set, is cleared by
\* nothing but the store of a stop() call, so that start() calls with no
\* stop() between them create one worker in all.
C15_StartOnRunningIsNoOp ==
    [][/\ \A t \in Clients :
            /\ (pc[t] = "start_load" /\ pc'[t] # pc[t] /\ is_running[target[t]])
                  => /\ pc'[t] = "idle"
                     /\ \A u \in Units : pc'[u] = pc[u]
                     /\ <<is_running, joinable, launched, crash>>'
                           = <<is_running, joinable, launched, crash>>
                     /\ <<buffer, is_shutdown, pushedLog, poppedLog>>'
                           = <<buffer, is_shutdown, pushedLog, poppedLog>>
            /\ (pc[t] = "start_launch" /\ pc'[t] # pc[t])
                  => /\ WorkerEnded(target[t])
                     /\ ~joinable[target[t]]
                     /\ launched' = [launched EXCEPT ![target[t]] = @ + 1]
                     /\ pc'[target[t]] = "loop"
                     /\ is_running'[target[t]]
                     /\ crash' = "none"
       /\ \A u \in Units :
            /\ launched'[u] # launched[u]
                  => \E t \in Clients : pc[t] = "start_launch" /\ target[t] = u
            /\ (is_running[u] /\ ~is_running'[u])
                  => \E t \in Clients : pc[t] = "stop_store" /\ target[t] = u
    ]_vars

\* start() has been entered on a unit whose flag is true and whose only
\* worker is running and has already used the queue.
C15_Witness ==
    /\ pc["t1"] = "start_load"
    /\ \E u \in LifeUnits :
          /\ target["t1"] = u
          /\ is_running[u]
          /\ launched[u] = 1
          /\ ~WorkerEnded(u)
    /\ pushedLog # <<>>

\* C16: with one thread issuing the calls, when stop() returns the unit's
\* worker has ended, its thread is joined and the running flag is false; a
\* stop() that finds the flag false returns at once and changes nothing; and
\* an ended worker takes no step (no push, pop or append) until a later
\* start() creates a new one.
C16_StopJoinsWorker ==
    [][/\ \A t \in Clients :
            /\ (pc[t] \in {"stop_load", "stop_join"} /\ pc'[t] = "idle")
                  => /\ WorkerEnded(target[t])
                     /\ pc'[target[t]] = pc[target[t]]
                     /\ ~is_running'[target[t]]
                     /\ ~joinable'[target[t]]
            /\ (pc[t] = "stop_load" /\ pc'[t] # pc[t] /\ ~is_running[target[t]])
                  => /\ pc'[t] = "idle"
                     /\ \A u \in Units : pc'[u] = pc[u]
                     /\ <<is_running, joinable, launched, crash>>'
                           = <<is_running, joinable, launched, crash>>
                     /\ <<buffer, is_shutdown, pushedLog, poppedLog, sink>>'
                           = <<buffer, is_shutdown, pushedLog, poppedLog, sink>>
       /\ \A u \in Units :
            (WorkerEnded(u) /\ pc'[u] # pc[u])
               => \E t \in Clients : pc[t] = "start_launch" /\ target[t] = u
    ]_vars

\* stop() has returned on the consumer after joining a worker that had
\* popped a message; the consumer is stopped and the caller is free again.
C16_Witness ==
    /\ pc["t1"] = "idle"
    /\ launched["c1"] >= 1
    /\ pc["c1"] = "done"
    /\ ~is_running["c1"]
    /\ ~joinable["c1"]
    /\ poppedLog # <<>>
    /\ ~caught["c1"]

\* C20: with two threads calling start() and stop() on the same unit in any
\* interleaving, a worker thread is never created while the unit's previous
\* worker is still executing its routine.
C20_AtMostOneWorker == crash # "thread_overlap"

\* C17: a consumer whose pop returns false goes back to its loop condition;
\* on a closed and drained queue a consumer whose running flag is true stays
\* in the loop (condition, pop, condition, ...); and a consumer leaves the
\* loop for the end of its routine only from the loop condition, with the
\* flag false, after main's stop() on that consumer has cleared it.
C17_ShutdownDoesNotStopConsumer ==
    [][\A c \in Consumers :
        /\ (PopReturns(c) /\ ret'[c] = Ret("pop", FALSE)) => pc'[c] = "loop"
        /\ (is_shutdown /\ buffer = <<>> /\ is_running[c]
              /\ pc[c] \in {"loop"} \cup PopStates)
              => pc'[c] \in {"loop"} \cup PopStates
        /\ (pc[c] \in {"loop"} \cup PopStates /\ pc'[c] = "done")
              => /\ pc[c] = "loop"
                 /\ ~is_running[c]
                 /\ cur = c \/ c \in stopped
    ]_vars

\* After main's shutdown() and after both producers were stopped, the queue
\* is drained, and a consumer whose flag is still true has just had a pop
\* return false and is back at its loop condition.
C17_Witness ==
    /\ atShutdown # NoShutdown
    /\ buffer = <<>>
    /\ Producers \subseteq stopped
    /\ \E c \in Consumers :
          /\ is_running[c]
          /\ pc[c] = "loop"
          /\ ret[c] = Ret("pop", FALSE)

\* C18: the step in which a consumer's append fails changes nothing but that
\* consumer: the stored items, the capacity, the closed flag and the logs
\* are as before (so the size bound and the FIFO order are kept), every
\* running flag is as before, every other unit's worker and main are where
\* they were, and the process is not terminated.
C18_ErrorContained ==
    [][\A c \in Consumers :
        (caught'[c] /\ ~caught[c])
           => /\ <<buffer, max_capacity, is_shutdown>>' = <<buffer, max_capacity, is_shutdown>>
              /\ <<pushedLog, poppedLog, sink>>' = <<pushedLog, poppedLog, sink>>
              /\ Len(buffer') <= max_capacity'
              /\ is_running' = is_running
              /\ joinable' = joinable
              /\ \A w \in Threads \ {c} : pc'[w] = pc[w]
              /\ \A u \in Units \ {c} : caught'[u] = caught[u]
              /\ crash' = "none"
    ]_vars

\* One consumer has failed on append while the other consumer and a
\* producer are still running their loops on a queue that stores a message.
C18_Witness ==
    /\ buffer # <<>>
    /\ \E c, d \in Consumers :
          /\ caught[c]
          /\ ~caught[d]
          /\ is_running[d]
          /\ pc[d] \in {"loop"} \cup PopStates
    /\ \E p \in Producers : is_running[p] /\ pc[p] \in {"loop"} \cup PushStates

\* C19: a MessageBuffer constructed with a capacity <= 0 does not exist: the
\* constructor has thrown, no thread ever runs an operation on it and
\* nothing is ever stored or returned; wherever a thread can use the queue,
\* its capacity is > 0.
C19_ZeroCapacityRejected ==
    /\ max_capacity <= 0
          => /\ crash = "ctor_throw"
             /\ \A t \in Threads : pc[t] = "terminated"
             /\ buffer = <<>> /\ pushedLog = <<>> /\ poppedLog = <<>>
             /\ \A t \in Threads : ret[t] = NoRet
    /\ crash = "none" => max_capacity > 0
    /\ (\E t \in Threads : pc[t] # "terminated") => max_capacity > 0

\* The constructor was called with capacity 0 and has thrown.
C19_Witness == max_capacity = 0 /\ crash = "ctor_throw"

\* Some thread's pop, respectively push, returns true in this step.
SomePopTrue == \E t \in Clients : PopReturns(t) /\ ret'[t] = Ret("pop", TRUE)
SomePushTrue == \E t \in Clients : PushReturns(t) /\ ret'[t] = Ret("push", TRUE)

\* A thread is inside the wait of pop, respectively of push.
PopWaiting == \E t \in Clients : pc[t] \in {"pop_wait", "pop_woken"}
PushWaiting == \E t \in Clients : pc[t] \in {"push_wait", "push_woken"}

\* C21: when every thread inside a queue call eventually takes its next
\* step: a state in which the queue is open and stores an item while a
\* thread is waiting in pop does not last, and the step that ends it (the
\* queue becomes empty or no thread waits in pop any more) is a pop that
\* returns true; a state in which the queue is open and has free space while
\* a thread is waiting in push does not last, and the step that ends it is
\* a push that returns true, unless it is the closing of the queue. A push
\* that appends notifies a parked popper, a pop that removes notifies a
\* parked pusher.
C21_NoLostWakeup ==
    /\ (~is_shutdown /\ buffer # <<>> /\ PopWaiting)
          ~> (buffer = <<>> \/ ~PopWaiting)
    /\ (~is_shutdown /\ Len(buffer) < max_capacity /\ PushWaiting)
          ~> (is_shutdown \/ Len(buffer) = max_capacity \/ ~PushWaiting)
    /\ [][/\ (buffer # <<>> /\ PopWaiting /\ (buffer' = <<>> \/ ~PopWaiting'))
               => SomePopTrue
          /\ (~is_shutdown /\ Len(buffer) < max_capacity /\ PushWaiting
                /\ ~is_shutdown' /\ (Len(buffer') = max_capacity \/ ~PushWaiting'))
               => SomePushTrue
          /\ (SomePushTrue /\ not_empty # {})
               => \E t \in Clients : pc[t] = "pop_wait" /\ pc'[t] = "pop_woken"
          /\ (SomePopTrue /\ not_full # {})
               => \E t \in Clients : pc[t] = "push_wait" /\ pc'[t] = "push_woken"
       ]_vars

\* Two poppers were parked on the empty open queue; a push has stored an
\* item and notified one of them, the other is still parked.
C21_Witness ==
    /\ ~is_shutdown
    /\ buffer # <<>>
    /\ \E t, w \in Clients : pc[t] = "pop_wait" /\ pc[w] = "pop_woken"

\* A start() call on unit u has passed its test of the flag and has not
\* returned yet.
StartInProgress(u) ==
    \E t \in Clients : pc[t] \in {"start_store", "start_launch"} /\ target[t] = u

\* C22: whenever a unit's worker is not executing its routine (never
\* started, or the routine has returned, through the catch handler too) and
\* no start() call on the unit is in progress, the unit's running flag is
\* false.
C22_FlagOnlyWhileAlive ==
    \A u \in Units : (WorkerEnded(u) /\ ~StartInProgress(u)) => ~is_running[u]

\* C23: until the first shutdown() call the closed flag of a constructed
\* queue is false: no push has returned false and no pop has returned false
\* before a shutdown() call has closed the queue.
C23_FreshQueueIsOpen ==
    atShutdown = NoShutdown
       => /\ ~is_shutdown
          /\ \A t \in Clients : ~(ret[t].op \in {"push", "pop"} /\ ~ret[t].ok)

\* The bound on the number of messages keeps a producer from entering push.
Exhausted == \E p \in Producers : pc[p] = "push_call" /\ ~is_shutdown /\ nextItem > Quota(p)

\* C24: when every thread that can take a step eventually does, every
\* stop() call eventually returns, whether or not shutdown() has been
\* called on the queue (runs cut short by the bound on the number of
\* messages are left aside).
C24_StopAlwaysReturns ==
    (pc["t1"] \in {"stop_load", "stop_store", "stop_join"})
       ~> (pc["t1"] = "idle" \/ Exhausted)

====
